---- MODULE Spec2Model ----
(***************************************************************************)
(* FabricDistort: a fabric.Photo (an image with four draggable perspective *)
(* control points) and its Perspective WebGL filter.                       *)
(*                                                                         *)
(* The model follows src/src/photo.js (the Photo class), the filter half   *)
(* of src/src/main.js (fabric.Image.filters.Perspective) and the           *)
(* application half of src/src/main.js (canvas, photo, toggle button).     *)
(*                                                                         *)
(* Numbers.  JavaScript numbers are modelled as exact rationals <<n, d>>   *)
(* in lowest terms with d > 0.  Every division of the code is by the       *)
(* device pixel ratio, by a scale factor or by 2; with the ratios of       *)
(* DevicePixelRatios (powers of two) IEEE doubles compute the same values  *)
(* exactly, so the rational model and the program agree.                   *)
(*                                                                         *)
(* Undefined.  A property the program has not set yet (perspectiveCoords,  *)
(* pathOffset) is the empty tuple <<>>.                                    *)
(***************************************************************************)
EXTENDS Integers, Sequences, FiniteSets, TLC

(***************************************************************************)
(* Bounds of the model (not program constants).                            *)
(***************************************************************************)
\* how many times the Photo is added to a canvas
MaxAdds == 2
\* how many drag updates (handler runs) are performed
MaxMoves == 2
\* how many times the toggle button is clicked
MaxClicks == 3
\* how many filters a filter run made pass by pass applies
MaxChain == 3

(***************************************************************************)
(* Inputs.                                                                 *)
(***************************************************************************)
\* fabric.devicePixelRatio
DevicePixelRatios == {1, 2}
\* natural size <<image.width, image.height>> of the loaded bitmap
ImageSizes == {<<200, 100>>}
\* canvas size <<window.innerWidth, window.innerHeight>>
CanvasSize == <<400, 300>>
\* fabric's default scaleX / scaleY: main.js passes none to the Photo
ObjectScale == <<1, 1>>
\* canvas positions <<x, y>> the pointer is moved to during a drag
Pointers == {<<320, 90>>, <<260, 120>>, <<80, 60>>}
\* the number of control points getInitialPerspective seeds
NumPoints == 4

(***************************************************************************)
(* JavaScript numbers as exact rationals.                                  *)
(***************************************************************************)
Abs(n) == IF n < 0 THEN -n ELSE n

RECURSIVE GCD(_, _)
GCD(a, b) == IF b = 0 THEN a ELSE GCD(b, a % b)

\* the rational n / d (d # 0) in lowest terms with a positive denominator
Rat(n, d) ==
  LET g == GCD(Abs(n), Abs(d))
      s == IF d < 0 THEN -1 ELSE 1
  IN  <<(s * n) \div g, (s * d) \div g>>

Num(k) == <<k, 1>>
Zero == Num(0)
RAdd(a, b) == Rat(a[1] * b[2] + b[1] * a[2], a[2] * b[2])
RSub(a, b) == Rat(a[1] * b[2] - b[1] * a[2], a[2] * b[2])
RMul(a, b) == Rat(a[1] * b[1], a[2] * b[2])
RDiv(a, b) == Rat(a[1] * b[2], a[2] * b[1])
RAbs(a) == <<Abs(a[1]), a[2]>>
RLeq(a, b) == a[1] * b[2] <= b[1] * a[2]
RLess(a, b) == a[1] * b[2] < b[1] * a[2]

\* fabric.util.array.min / max over one coordinate of a list of points,
\* followed by the code's "|| 0" (an empty list gives undefined, hence 0)
ArrayMin(values) ==
  IF values = {} THEN Zero
  ELSE CHOOSE m \in values : \A v \in values : RLeq(m, v)

ArrayMax(values) ==
  IF values = {} THEN Zero
  ELSE CHOOSE m \in values : \A v \in values : RLeq(v, m)

\* the x (axis 1) or y (axis 2) values of a list of points
Axis(coords, axis) == {coords[i][axis] : i \in 1..Len(coords)}

\* the element of a one-element set: The({e(x) : x \in {v}}) is e(v) with v
\* computed once
The(S) == CHOOSE x \in S : TRUE

(***************************************************************************)
(* State.                                                                  *)
(***************************************************************************)
VARIABLES
  dpr,               \* fabric.devicePixelRatio
  image,             \* natural size of the bitmap behind src
  onCanvas,          \* the Photo is in a canvas (this.canvas is set)
  listeners,         \* number of registered 'image:loaded' handlers
  pendingLoads,      \* Image loads started and not yet completed
  loaded,            \* this.loaded
  width,             \* this.width
  height,            \* this.height
  pathOffset,        \* this.pathOffset, <<>> while undefined
  perspectiveCoords, \* this.perspectiveCoords, <<>> while undefined; the
                     \* Perspective filter made by getInitialPerspective
                     \* holds the very same array
  filters,           \* this.filters: the Perspective filters pushed
  perspectiveMode,   \* this.perspectiveMode
  controls,          \* this.controls
  transform,         \* canvas._currentTransform: 0, or the handle dragged
  actionPerformed,   \* what the last action handler call returned
  moves,             \* drag updates performed so far
  log,               \* console output of the toggle button
  saved,             \* the serialized Photo, <<>> while there is none
  restored,          \* the Photo made from it, <<>> while there is none
  pipeline,          \* the options (pipeline state) of the last filter run
  oCoords,           \* the control geometry setCoords() cached last: the
                     \* width and height it was computed from
  renderRequested,   \* a canvas.requestRenderAll() is pending
  rendered,          \* warp draw calls issued since the last frame
  callbacks,         \* the calls fabric.Photo.fromObject made to its callback
  run                \* a filter run made pass by pass: its state and the
                     \* number of filters it has still to apply

\* the state of rendering
renderVars == <<pipeline, oCoords, renderRequested, rendered>>

vars == <<dpr, image, onCanvas, listeners, pendingLoads, loaded, width,
          height, pathOffset, perspectiveCoords, filters, perspectiveMode,
          controls, transform, actionPerformed, moves, log, saved,
          restored, pipeline, oCoords, renderRequested, rendered,
          callbacks, run>>


(***************************************************************************)
(* Photo geometry (photo.js).                                              *)
(***************************************************************************)
\* _calcDimensions: the bounding box of the control points, each divided by
\* the device pixel ratio
CalcDimensions(coords, ratio) ==
  The({ The({ [left |-> minX, top |-> minY,
               width |-> RAbs(RSub(maxX, minX)),
               height |-> RAbs(RSub(maxY, minY))] :
              minX \in {ArrayMin(Axis(scaled, 1))},
              minY \in {ArrayMin(Axis(scaled, 2))},
              maxX \in {ArrayMax(Axis(scaled, 1))},
              maxY \in {ArrayMax(Axis(scaled, 2))} }) :
        scaled \in {[i \in 1..Len(coords) |->
                       <<RDiv(coords[i][1], Num(ratio)),
                         RDiv(coords[i][2], Num(ratio))>>]} })

\* _setPositionDimensions: width, height and pathOffset from _calcDimensions
SetPositionDimensions(coords, ratio) ==
  The({ [width |-> dim.width, height |-> dim.height,
         pathOffset |-> <<dim.left, dim.top>>] :
        dim \in {CalcDimensions(coords, ratio)} })

\* variant: the offset is added instead of subtracted
ApplyPointsOffsetAdded(coords, offset) ==
  [i \in 1..Len(coords) |->
     <<RAdd(coords[i][1], offset[1]), RAdd(coords[i][2], offset[2])>>]

\* variant: the shifted points are stored in reverse index order
ApplyPointsOffsetReversed(coords, offset) ==
  [i \in 1..Len(coords) |->
     <<RSub(coords[Len(coords) + 1 - i][1], offset[1]),
       RSub(coords[Len(coords) + 1 - i][2], offset[2])>>]

\* _applyPointsOffset: coord[0] -= pathOffset.x, coord[1] -= pathOffset.y
\* for every point, in index order
ApplyPointsOffset(coords, offset) ==
  [i \in 1..Len(coords) |->
     <<RSub(coords[i][1], offset[1]), RSub(coords[i][2], offset[2])>>]

\* _resetSizeAndPosition(index, apply = true): the index is not used
ResetSizeAndPosition(coords, ratio, apply) ==
  The({ [coords |-> IF apply
                    THEN ApplyPointsOffset(coords, frame.pathOffset)
                    ELSE coords,
         width |-> frame.width, height |-> frame.height,
         pathOffset |-> frame.pathOffset] :
        frame \in {SetPositionDimensions(coords, ratio)} })

(***************************************************************************)
(* The Perspective filter (main.js, second half).                          *)
(***************************************************************************)
\* the class field "bounds" of a new filter
NoBounds ==
  [width |-> Zero, height |-> Zero, minX |-> Zero, maxX |-> Zero,
   minY |-> Zero, maxY |-> Zero]

\* applyPixelRatio: every coordinate times this.pixelRatio, in place
ApplyPixelRatio(coords, pixelRatio) ==
  [i \in 1..Len(coords) |->
     <<RMul(coords[i][1], Num(pixelRatio)),
       RMul(coords[i][2], Num(pixelRatio))>>]

\* getPerspectiveBounds: the bounding box of the raw coordinates
GetPerspectiveBounds(coords) ==
  The({ [width |-> RAbs(RSub(maxX, minX)),
         height |-> RAbs(RSub(maxY, minY)),
         minX |-> minX, maxX |-> maxX, minY |-> minY, maxY |-> maxY] :
        minX \in {ArrayMin(Axis(coords, 1))},
        minY \in {ArrayMin(Axis(coords, 2))},
        maxX \in {ArrayMax(Axis(coords, 1))},
        maxY \in {ArrayMax(Axis(coords, 2))} })

\* calculateCoordsByCorners: every coordinate minus bounds.minX / minY
CalculateCoordsByCorners(coords, bounds) ==
  [i \in 1..Len(coords) |->
     <<RSub(coords[i][1], bounds.minX), RSub(coords[i][2], bounds.minY)>>]

\* the value of a filter's perspectiveCoords property when it is the very
\* array object the Photo holds in its own perspectiveCoords
SameArray == <<"the array of the Photo">>

\* this.perspectiveCoords as the filter reads it: the Photo's array when the
\* filter holds that array, otherwise the array of its own
FilterCoords(filter, coords) ==
  IF filter.perspectiveCoords = SameArray THEN coords
  ELSE filter.perspectiveCoords

\* generateSurface: the NURBS surface by corners and its tessellation are a
\* function of the four corners in their order; the mesh is represented by
\* the ordered corners that determine it.  There is no test of the corners:
\* every corner list gives a mesh
GenerateSurface(coords) == [corners |-> coords]

\* the options (pipeline state) a filter run starts with: the pass counter,
\* the number of filters still to run, the three texture handles, and what
\* the passes have done to the GL context so far
NewPipeline(passes, webgl, withOriginal) ==
  [webgl |-> webgl, pass |-> 0, passes |-> passes,
   originalTexture |-> IF withOriginal THEN "original" ELSE "none",
   sourceTexture |-> "a", targetTexture |-> "b",
   canvas |-> <<Zero, Zero>>, destination |-> <<Zero, Zero>>,
   framebuffer |-> "none", bound |-> "none", read |-> <<>>,
   buffers |-> 0, draws |-> 0, mesh |-> <<>>, error |-> "none"]

\* the pipeline state before any filter run
NoPipeline == NewPipeline(0, TRUE, TRUE)

\* variant: the source texture is bound in every pass
BindTextureSource(options) ==
  [options EXCEPT !.bound = options.sourceTexture,
                  !.read = Append(@, options.sourceTexture)]

\* bindTexture: pass 0 binds the original texture when there is one, every
\* other pass the source texture
BindTexture(options) ==
  The({ [options EXCEPT !.bound = texture, !.read = Append(@, texture)] :
        texture \in {IF options.pass = 0 /\ options.originalTexture # "none"
                     THEN options.originalTexture
                     ELSE options.sourceTexture} })

\* indexBuffer: gl.createBuffer() on every call
IndexBuffer(options) == [options EXCEPT !.buffers = @ + 1]

\* this._setupFrameBuffer(options), inherited: "set up the framebuffer,
\* ready to draw": the target texture while passes follow, else the canvas
SetupFrameBuffer(options) ==
  [options EXCEPT !.framebuffer = IF options.passes > 1
                                  THEN options.targetTexture
                                  ELSE "canvas"]

\* this._swapTextures(options), inherited: "exchange source/target texture
\* to apply filters one after the other", and count the pass
SwapTextures(options) ==
  [options EXCEPT !.sourceTexture = options.targetTexture,
                  !.targetTexture = options.sourceTexture,
                  !.pass = @ + 1, !.passes = @ - 1]

\* canvas.width = value: the DOM stores the integer part
CanvasLength(value) == Num(value[1] \div value[2])

\* applyToWebGL: retrieveShader (which throws when the program cannot be
\* compiled), generateSurface, bindTexture, indexBuffer, the attribute
\* data, the viewport and the draw call
ApplyToWebGL(coords, options, shaderOk) ==
  IF ~shaderOk THEN [options EXCEPT !.error = "thrown by retrieveShader"]
  ELSE The({ [bufferBound EXCEPT !.mesh = GenerateSurface(coords),
                                 !.draws = @ + 1] :
             bufferBound \in {IndexBuffer(BindTexture(options))} })

\* applyTo(options) of one filter: the new filter, the new content of the
\* Photo's coordinate array and the new options.  Without options.webgl
\* nothing is done
ApplyTo(filter, coords, options, shaderOk) ==
  IF options.webgl
  THEN The({ The({ [filter |->
                      [filter EXCEPT
                         !.bounds = bounds,
                         !.perspectiveCoords =
                            IF @ = SameArray THEN @ ELSE relative],
                    coords |-> IF filter.perspectiveCoords = SameArray
                               THEN relative ELSE coords,
                    options |-> IF gl.error = "none" THEN SwapTextures(gl)
                                ELSE gl] :
                   gl \in {ApplyToWebGL(
                             relative,
                             SetupFrameBuffer(
                               [options EXCEPT
                                  !.canvas = <<CanvasLength(bounds.width),
                                               CanvasLength(bounds.height)>>,
                                  !.destination = <<bounds.width,
                                                    bounds.height>>]),
                             shaderOk)} }) :
             bounds \in {GetPerspectiveBounds(FilterCoords(filter, coords))},
             relative \in {IF filter.hasRelativeCoordinates
                           THEN CalculateCoordsByCorners(
                                  FilterCoords(filter, coords),
                                  GetPerspectiveBounds(
                                    FilterCoords(filter, coords)))
                           ELSE FilterCoords(filter, coords)} })
  ELSE [filter |-> filter, coords |-> coords, options |-> options]

\* Photo.applyFilters(): the WebGL backend (main.js sets
\* fabric.filterBackend to a WebglFilterBackend) starts a pipeline and runs
\* applyTo of every filter in order
RECURSIVE ApplyFilters(_, _, _, _)
ApplyFilters(fs, coords, done, options) ==
  IF fs = <<>>
  THEN [filters |-> done, coords |-> coords, runs |-> <<options>>]
  ELSE The({ ApplyFilters(Tail(fs), r.coords, Append(done, r.filter),
                          r.options) :
             r \in {ApplyTo(Head(fs), coords, options, TRUE)} })

(***************************************************************************)
(* Photo initialization (photo.js).                                        *)
(***************************************************************************)
\* variant: the filter is given a copy of the corner array
GetInitialPerspectiveCopied(w, h, fs, ratio) ==
  LET sw == RMul(w, Num(ObjectScale[1]))
      sh == RMul(h, Num(ObjectScale[2]))
      corners == << <<Zero, Zero>>, <<sw, Zero>>, <<sw, sh>>, <<Zero, sh>> >>
      filter == [type |-> "Perspective", hasRelativeCoordinates |-> FALSE,
                 pixelRatio |-> ratio, bounds |-> NoBounds,
                 perspectiveCoords |-> ApplyPixelRatio(corners, ratio)]
  IN  ApplyFilters(Append(fs, filter), ApplyPixelRatio(corners, ratio), <<>>,
                   NewPipeline(Len(fs) + 1, TRUE, TRUE))

\* getInitialPerspective: the four corners of the scaled rectangle, a new
\* Perspective filter on the same array (its constructor runs
\* applyPixelRatio on it), filters.push, applyFilters
GetInitialPerspective(w, h, fs, ratio) ==
  LET sw == RMul(w, Num(ObjectScale[1]))
      sh == RMul(h, Num(ObjectScale[2]))
      corners == << <<Zero, Zero>>, <<sw, Zero>>, <<sw, sh>>, <<Zero, sh>> >>
      filter == [type |-> "Perspective", hasRelativeCoordinates |-> FALSE,
                 pixelRatio |-> ratio, bounds |-> NoBounds,
                 perspectiveCoords |-> SameArray]
      shared == ApplyPixelRatio(corners, filter.pixelRatio)
  IN  ApplyFilters(Append(fs, filter), shared, <<>>,
                   NewPipeline(Len(fs) + 1, TRUE, TRUE))

\* variant: the listener initializes without looking at perspectiveCoords
ImageLoadedHandlerAlways(coords, w, h, fs, ratio) ==
  GetInitialPerspective(w, h, fs, ratio)

\* one 'image:loaded' listener: !this.perspectiveCoords &&
\* this.getInitialPerspective()
ImageLoadedHandler(coords, w, h, fs, ratio) ==
  IF coords = <<>> THEN GetInitialPerspective(w, h, fs, ratio)
  ELSE [filters |-> fs, coords |-> coords, runs |-> <<>>]

\* fire('image:loaded'): the n registered listeners in turn; each ends with
\* this.canvas.requestRenderAll(), which throws when the Photo is in no
\* canvas and so ends the dispatch.  runs: the filter runs performed
RECURSIVE FireImageLoaded(_, _, _, _, _, _, _)
FireImageLoaded(n, coords, w, h, fs, ratio, inCanvas) ==
  IF n = 0 THEN [filters |-> fs, coords |-> coords, runs |-> <<>>]
  ELSE The({ IF inCanvas
             THEN The({ [rest EXCEPT !.runs = r.runs \o @] :
                        rest \in {FireImageLoaded(n - 1, r.coords, w, h,
                                                  r.filters, ratio,
                                                  inCanvas)} })
             ELSE r :
             r \in {ImageLoadedHandler(coords, w, h, fs, ratio)} })

\* fabric.Image.prototype.controls, and the prs1..prsN handles
\* togglePerspective(true) builds, one per control point: handle n drags
\* point n
ImageControls == [kind |-> "image", handles |-> {}]
PerspectiveControls(coords) == [kind |-> "prs", handles |-> 1..Len(coords)]

Init ==
  /\ dpr \in DevicePixelRatios
  /\ image \in ImageSizes
  /\ onCanvas = FALSE
  /\ listeners = 0
  /\ pendingLoads = 0
  /\ loaded = FALSE
  /\ width = Zero
  /\ height = Zero
  /\ pathOffset = <<>>
  /\ perspectiveCoords = <<>>
  /\ filters = <<>>
  /\ perspectiveMode = FALSE
  /\ controls = ImageControls
  /\ transform = 0
  /\ actionPerformed = FALSE
  /\ moves = 0
  /\ log = <<>>
  /\ saved = <<>>
  /\ restored = <<>>
  /\ pipeline = NoPipeline
  /\ oCoords = <<>>
  /\ renderRequested = FALSE
  /\ rendered = 0
  /\ callbacks = <<>>
  /\ run = [state |-> "none", left |-> 0]

\* canvas.add(photo): the 'added' listener starts an Image load and
\* registers one more 'image:loaded' listener
Added ==
  /\ ~onCanvas
  /\ listeners < MaxAdds
  /\ onCanvas' = TRUE
  /\ listeners' = listeners + 1
  /\ pendingLoads' = pendingLoads + 1
  /\ UNCHANGED <<dpr, image, loaded, width, height, pathOffset,
                 perspectiveCoords, filters, perspectiveMode, controls,
                 transform, actionPerformed, moves, log, saved,
                 restored, renderVars, callbacks, run>>

\* canvas.remove(photo): this.canvas is unset; listeners stay registered
Removed ==
  /\ onCanvas
  /\ transform = 0
  /\ onCanvas' = FALSE
  /\ UNCHANGED <<dpr, image, listeners, pendingLoads, loaded, width, height,
                 pathOffset, perspectiveCoords, filters, perspectiveMode,
                 controls, transform, actionPerformed, moves, log, saved,
                 restored, renderVars, callbacks, run>>

\* the draw calls of a list of filter runs
RECURSIVE Draws(_)
Draws(runs) == IF runs = <<>> THEN 0 ELSE Head(runs).draws + Draws(Tail(runs))

\* the options of the last filter run, the current ones when none was made
LastRun(runs, options) == IF runs = <<>> THEN options ELSE runs[Len(runs)]

\* image.onload of one pending load: width and height from the bitmap,
\* loaded, setCoords(), then the 'image:loaded' listeners, each of which
\* requests a render of the canvas
ImageOnload ==
  /\ pendingLoads > 0
  /\ \E w \in {RDiv(Num(image[1]), Num(dpr))},
        h \in {RDiv(Num(image[2]), Num(dpr))} :
       \E r \in {FireImageLoaded(listeners, perspectiveCoords, w, h,
                                 filters, dpr, onCanvas)} :
         /\ width' = w
         /\ height' = h
         /\ oCoords' = <<w, h>>
         /\ perspectiveCoords' = r.coords
         /\ filters' = r.filters
         /\ pipeline' = LastRun(r.runs, pipeline)
         /\ rendered' = rendered + Draws(r.runs)
  /\ pendingLoads' = pendingLoads - 1
  /\ loaded' = TRUE
  /\ renderRequested' = (renderRequested \/ onCanvas)
  /\ UNCHANGED <<dpr, image, onCanvas, listeners, pathOffset,
                 perspectiveMode, controls, transform, actionPerformed,
                 moves, log, saved, restored, callbacks,
                 run>>

\* one pending load fails: the Image has no onerror handler, nothing runs
ImageError ==
  /\ pendingLoads > 0
  /\ pendingLoads' = pendingLoads - 1
  /\ UNCHANGED <<dpr, image, onCanvas, listeners, loaded, width, height,
                 pathOffset, perspectiveCoords, filters, perspectiveMode,
                 controls, transform, actionPerformed, moves, log, saved,
                 restored, renderVars, callbacks, run>>


(***************************************************************************)
(* Warp mode (photo.js togglePerspective, main.js toggle button).          *)
(***************************************************************************)
\* variant: enabling the mode applies the pixel ratio to the points again
TogglePerspectiveRescaled(mode, coords, oldControls) ==
  [perspectiveMode |-> mode,
   controls |-> IF mode
                THEN IF coords = <<>> THEN oldControls
                     ELSE PerspectiveControls(coords)
                ELSE ImageControls,
   coords |-> IF mode THEN ApplyPixelRatio(coords, 2) ELSE coords,
   completed |-> ~mode \/ coords # <<>>]

\* togglePerspective(mode): perspectiveMode is set first; with mode true
\* this.perspectiveCoords.length throws while the coordinates are
\* undefined, which leaves the controls as they were.  completed: the call
\* reached its last statement, this.canvas.requestRenderAll()
TogglePerspective(mode, coords, oldControls) ==
  [perspectiveMode |-> mode,
   controls |-> IF mode
                THEN IF coords = <<>> THEN oldControls
                     ELSE PerspectiveControls(coords)
                ELSE ImageControls,
   coords |-> coords,
   completed |-> ~mode \/ coords # <<>>]

\* the click listener of toggleButton: logs the current mode, calls
\* togglePerspective with its negation and requests a render once more.
\* this.canvas.requestRenderAll() throws when the Photo is in no canvas
ButtonClick ==
  /\ Len(log) < MaxClicks
  /\ \E currentMode \in {perspectiveMode} :
       \E r \in {TogglePerspective(~currentMode, perspectiveCoords,
                                   controls)} :
         /\ log' = Append(log, currentMode)
         /\ perspectiveMode' = r.perspectiveMode
         /\ controls' = r.controls
         /\ perspectiveCoords' = r.coords
         /\ renderRequested'
              = (renderRequested \/ (r.completed /\ onCanvas))
  /\ UNCHANGED <<dpr, image, onCanvas, listeners, pendingLoads, loaded,
                 width, height, pathOffset, filters, transform,
                 actionPerformed, moves, saved, restored, pipeline, oCoords,
                 rendered, callbacks, run>>

(***************************************************************************)
(* Dragging a handle (photo.js, the actionHandler of each prs control).    *)
(***************************************************************************)
\* steps 1-4 of the handler: the pointer through the inverse of the
\* object's transform matrix (main.js places the Photo with its centre at
\* the canvas centre, no rotation), from centre-based to top-left-based,
\* divided by the scale and multiplied by the device pixel ratio
PointerToCoord(pointer, w, h, ratio) ==
  LET centre == <<Rat(CanvasSize[1], 2), Rat(CanvasSize[2], 2)>>
      sx == Num(ObjectScale[1])
      sy == Num(ObjectScale[2])
      localX == RDiv(RSub(Num(pointer[1]), centre[1]), sx)
      localY == RDiv(RSub(Num(pointer[2]), centre[2]), sy)
      topLeftX == RAdd(localX, RDiv(w, Num(2)))
      topLeftY == RAdd(localY, RDiv(h, Num(2)))
  IN  <<RMul(RDiv(topLeftX, sx), Num(ratio)),
        RMul(RDiv(topLeftY, sy), Num(ratio))>>

\* variant: the geometry is reset before the handler writes the point (the
\* order of the _actionWrapper in src/unnamed/part_000)
PerspectiveHandlerStale(n, pointer, coords, w, h, fs, ratio) ==
  The({ The({ [coords |-> applied.coords, width |-> reset.width,
               height |-> reset.height, pathOffset |-> reset.pathOffset,
               oCoords |-> <<reset.width, reset.height>>,
               filters |-> applied.filters, runs |-> applied.runs,
               result |-> TRUE] :
              applied \in {ApplyFilters(
                             fs,
                             [reset.coords EXCEPT
                                ![n] = PointerToCoord(pointer, reset.width,
                                                      reset.height, ratio)],
                             <<>>, NewPipeline(Len(fs), TRUE, TRUE))} }) :
        reset \in {ResetSizeAndPosition(coords, ratio, TRUE)} })

\* variant: setCoords() and applyFilters() run before _resetSizeAndPosition
PerspectiveHandlerFilterFirst(n, pointer, coords, w, h, fs, ratio) ==
  The({ The({ [coords |-> reset.coords, width |-> reset.width,
               height |-> reset.height, pathOffset |-> reset.pathOffset,
               oCoords |-> <<w, h>>,
               filters |-> applied.filters, runs |-> applied.runs,
               result |-> TRUE] :
              reset \in {ResetSizeAndPosition(applied.coords, ratio,
                                              TRUE)} }) :
        applied \in {ApplyFilters(
                       fs,
                       [coords EXCEPT
                          ![n] = PointerToCoord(pointer, w, h, ratio)],
                       <<>>, NewPipeline(Len(fs), TRUE, TRUE))} })

\* variant: the handler writes the anchor point (the point before n, the
\* last one for the first) instead of point n
PerspectiveHandlerAnchor(n, pointer, coords, w, h, fs, ratio) ==
  The({ The({ [coords |-> applied.coords, width |-> reset.width,
               height |-> reset.height, pathOffset |-> reset.pathOffset,
               oCoords |-> <<reset.width, reset.height>>,
               filters |-> applied.filters, runs |-> applied.runs,
               result |-> TRUE] :
              applied \in {ApplyFilters(fs, reset.coords, <<>>,
                                        NewPipeline(Len(fs), TRUE,
                                                    TRUE))} }) :
        reset \in {ResetSizeAndPosition(
                     [coords EXCEPT
                        ![IF n > 1 THEN n - 1 ELSE Len(coords)]
                          = PointerToCoord(pointer, w, h, ratio)],
                     ratio, TRUE)} })

\* the handler of handle n: writes point n, then _resetSizeAndPosition(),
\* setCoords(), applyFilters(); returns true
PerspectiveHandler(n, pointer, coords, w, h, fs, ratio) ==
  The({ The({ [coords |-> applied.coords, width |-> reset.width,
               height |-> reset.height, pathOffset |-> reset.pathOffset,
               oCoords |-> <<reset.width, reset.height>>,
               filters |-> applied.filters, runs |-> applied.runs,
               result |-> TRUE] :
              applied \in {ApplyFilters(fs, reset.coords, <<>>,
                                        NewPipeline(Len(fs), TRUE,
                                                    TRUE))} }) :
        reset \in {ResetSizeAndPosition(
                     [coords EXCEPT
                        ![n] = PointerToCoord(pointer, w, h, ratio)],
                     ratio, TRUE)} })

\* the function _actionWrapper returns: nothing happens without transform
\* or event data, otherwise the handler runs
ActionWrapper(eventData, hasTransform, n, pointer, photo, ratio) ==
  IF ~hasTransform \/ ~eventData
  THEN [coords |-> photo.coords, width |-> photo.width,
        height |-> photo.height, pathOffset |-> photo.pathOffset,
        oCoords |-> photo.oCoords,
        filters |-> photo.filters, runs |-> <<>>, result |-> FALSE]
  ELSE PerspectiveHandler(n, pointer, photo.coords, photo.width,
                          photo.height, photo.filters, ratio)

\* mouse down on handle n: the canvas starts a transform with its handler
MouseDown(n) ==
  /\ onCanvas
  /\ transform = 0
  /\ controls.kind = "prs"
  /\ n \in controls.handles
  /\ transform' = n
  /\ UNCHANGED <<dpr, image, onCanvas, listeners, pendingLoads, loaded,
                 width, height, pathOffset, perspectiveCoords, filters,
                 perspectiveMode, controls, actionPerformed, moves, log, saved,
                 restored, renderVars, callbacks, run>>

\* a pointer move during the transform: the handler of the dragged
\* handle; a call that performs the action (returns true) is one drag
\* update, after which the canvas requests a render
MouseMove(pointer, eventData, hasTransform) ==
  /\ transform # 0
  /\ moves < MaxMoves
  /\ \E r \in {ActionWrapper(
                 eventData, hasTransform, transform, pointer,
                 [coords |-> perspectiveCoords, width |-> width,
                  height |-> height, pathOffset |-> pathOffset,
                  oCoords |-> oCoords, filters |-> filters],
                 dpr)} :
         /\ perspectiveCoords' = r.coords
         /\ width' = r.width
         /\ height' = r.height
         /\ pathOffset' = r.pathOffset
         /\ filters' = r.filters
         /\ actionPerformed' = r.result
         /\ moves' = IF r.result THEN moves + 1 ELSE moves
         /\ oCoords' = r.oCoords
         /\ pipeline' = LastRun(r.runs, pipeline)
         /\ rendered' = rendered + Draws(r.runs)
         /\ renderRequested' = (renderRequested \/ r.result)
  /\ UNCHANGED <<dpr, image, onCanvas, listeners, pendingLoads, loaded,
                 perspectiveMode, controls, transform, log, saved,
                 restored, callbacks, run>>

\* mouse up: the transform ends
MouseUp ==
  /\ transform # 0
  /\ transform' = 0
  /\ UNCHANGED <<dpr, image, onCanvas, listeners, pendingLoads, loaded,
                 width, height, pathOffset, perspectiveCoords, filters,
                 perspectiveMode, controls, actionPerformed, moves, log, saved,
                 restored, renderVars, callbacks, run>>

(***************************************************************************)
(* Save and restore (photo.js fabric.Photo.fromObject, main.js             *)
(* Perspective constructor and fromObject).                                *)
(***************************************************************************)
\* the persisted state of a Photo: its ordered control points and its
\* warp-mode flag, and the description of its Perspective filter with the
\* same control points and the pixel ratio
Serialize(coords, mode, fs) ==
  [perspectiveCoords |-> coords, perspectiveMode |-> mode,
   filters |-> [i \in 1..Len(fs) |->
                  [type |-> fs[i].type, perspectiveCoords |-> coords,
                   pixelRatio |-> fs[i].pixelRatio]]]

\* new Perspective(options), as Perspective.fromObject calls it: the
\* options are copied onto the filter, then applyPixelRatio runs on its
\* coordinates
NewPerspective(options) ==
  [type |-> "Perspective", pixelRatio |-> options.pixelRatio,
   perspectiveCoords |->
     ApplyPixelRatio(options.perspectiveCoords, options.pixelRatio)]

\* fabric.Photo.fromObject(_object, callback) with the image loaded: the
\* filters are made from their descriptions, then new fabric.Photo(img,
\* object) copies the options onto the Photo.  sameArray: the description
\* of the filter and that of the Photo hold one and the same coordinate
\* array (an object that did not pass through JSON), which the filter
\* constructor scales in place
FromObjectResult(object, sameArray) ==
  The({ [perspectiveCoords |->
           IF sameArray /\ Len(fs) > 0 THEN fs[Len(fs)].perspectiveCoords
           ELSE object.perspectiveCoords,
         perspectiveMode |-> object.perspectiveMode,
         controls |-> ImageControls,
         filters |-> fs] :
        fs \in {[i \in 1..Len(object.filters) |->
                   NewPerspective(object.filters[i])]} })

\* variant: the error branch does not return
FromObjectCallsNoReturn(object, sameArray, isError) ==
  [calls |-> IF isError THEN << <<"null", TRUE>>, <<"photo", FALSE>> >>
             ELSE << <<"photo", FALSE>> >>,
   photo |-> FromObjectResult(object, sameArray)]

\* fabric.Photo.fromObject(_object, callback): what the completion of
\* fabric.util.loadImage leads to.  With isError the callback is called
\* with (null, true) and the function returns; otherwise the Photo is made
\* and the callback is called with (image, false)
FromObjectCalls(object, sameArray, isError) ==
  IF isError
  THEN [calls |-> << <<"null", TRUE>> >>, photo |-> <<>>]
  ELSE [calls |-> << <<"photo", FALSE>> >>,
        photo |-> FromObjectResult(object, sameArray)]

\* the application stores the Photo's state
Save ==
  /\ saved = <<>>
  /\ transform = 0
  /\ perspectiveCoords # <<>>
  /\ saved' = Serialize(perspectiveCoords, perspectiveMode, filters)
  /\ UNCHANGED <<dpr, image, onCanvas, listeners, pendingLoads, loaded,
                 width, height, pathOffset, perspectiveCoords, filters,
                 perspectiveMode, controls, transform, actionPerformed,
                 moves, log, restored, renderVars, callbacks, run>>

\* fabric.Photo.fromObject is called once with the stored state; isError:
\* the image behind object.src fails to load
FromObject(sameArray, isError) ==
  /\ saved # <<>>
  /\ restored = <<>>
  /\ callbacks = <<>>
  /\ \E r \in {FromObjectCalls(saved, sameArray, isError)} :
       /\ restored' = r.photo
       /\ callbacks' = callbacks \o r.calls
  /\ UNCHANGED <<dpr, image, onCanvas, listeners, pendingLoads, loaded,
                 width, height, pathOffset, perspectiveCoords, filters,
                 perspectiveMode, controls, transform, actionPerformed,
                 moves, log, saved, renderVars, run>>

Next ==
  \/ Added
  \/ Removed
  \/ ImageOnload
  \/ ImageError
  \/ ButtonClick
  \/ \E n \in 1..NumPoints : MouseDown(n)
  \/ \E p \in Pointers, e \in BOOLEAN, t \in BOOLEAN : MouseMove(p, e, t)
  \/ MouseUp

Spec == Init /\ [][Next]_vars

\* a session with the Photo added once that ends with its state being
\* saved and restored
PersistNext ==
  \/ /\ saved = <<>>
     /\ \/ Added
        \/ ImageOnload
        \/ ImageError
        \/ ButtonClick
        \/ \E n \in 1..NumPoints : MouseDown(n)
        \/ \E p \in Pointers, e \in BOOLEAN, t \in BOOLEAN :
             MouseMove(p, e, t)
        \/ MouseUp
  \/ Save
  \/ \E sameArray \in BOOLEAN, isError \in BOOLEAN :
       FromObject(sameArray, isError)

PersistSpec == Init /\ [][PersistNext]_vars

(***************************************************************************)
(* A filter run made pass by pass (main.js applyTo): the backend hands one *)
(* options object to applyTo of every filter of the chain in turn.  The    *)
(* chain applies the Photo's Perspective filter passes times; the backend  *)
(* may be one without WebGL, and a shader may fail to compile.             *)
(***************************************************************************)
\* the backend starts a run of the chain
BeginRun(passes, webgl, withOriginal) ==
  /\ run.state = "none"
  /\ perspectiveCoords # <<>>
  /\ transform = 0
  /\ pipeline' = NewPipeline(passes, webgl, withOriginal)
  /\ run' = [state |-> "running", left |-> passes]
  /\ UNCHANGED <<dpr, image, onCanvas, listeners, pendingLoads, loaded,
                 width, height, pathOffset, perspectiveCoords, filters,
                 perspectiveMode, controls, transform, actionPerformed,
                 moves, log, saved, restored, oCoords, renderRequested,
                 rendered, callbacks>>

\* the backend calls applyTo(options) of the next filter of the chain; an
\* exception ends the run
FilterPass(shaderOk) ==
  /\ run.state = "running"
  /\ \E r \in {ApplyTo(filters[1], perspectiveCoords, pipeline, shaderOk)} :
       /\ filters' = [filters EXCEPT ![1] = r.filter]
       /\ perspectiveCoords' = r.coords
       /\ pipeline' = r.options
       /\ rendered' = rendered + (r.options.draws - pipeline.draws)
       /\ run' = IF r.options.error # "none"
                 THEN [state |-> "failed", left |-> run.left]
                 ELSE [state |-> IF run.left = 1 THEN "done" ELSE "running",
                       left |-> run.left - 1]
  /\ UNCHANGED <<dpr, image, onCanvas, listeners, pendingLoads, loaded,
                 width, height, pathOffset, perspectiveMode, controls,
                 transform, actionPerformed, moves, log, saved, restored,
                 oCoords, renderRequested, callbacks>>

\* a session with the Photo added once that ends with a filter run made
\* pass by pass
PipelineNext ==
  \/ /\ run.state = "none"
     /\ \/ Added
        \/ ImageOnload
        \/ ButtonClick
        \/ \E n \in 1..NumPoints : MouseDown(n)
        \/ \E p \in Pointers, e \in BOOLEAN, t \in BOOLEAN :
             MouseMove(p, e, t)
        \/ MouseUp
  \/ \E passes \in 1..MaxChain, webgl \in BOOLEAN, withOriginal \in BOOLEAN :
       BeginRun(passes, webgl, withOriginal)
  \/ \E shaderOk \in BOOLEAN : FilterPass(shaderOk)

PipelineSpec == Init /\ [][PipelineNext]_vars

(***************************************************************************)
(* Frames (main.js, photo.js requestRenderAll): a pending render request   *)
(* is served at the next animation frame by one render of the canvas.      *)
(***************************************************************************)
Frame ==
  /\ renderRequested
  /\ renderRequested' = FALSE
  /\ rendered' = 0
  /\ UNCHANGED <<dpr, image, onCanvas, listeners, pendingLoads, loaded,
                 width, height, pathOffset, perspectiveCoords, filters,
                 perspectiveMode, controls, transform, actionPerformed,
                 moves, log, saved, restored, pipeline, oCoords, callbacks,
                 run>>

FrameNext ==
  \/ Next
  \/ Frame

FrameSpec == Init /\ [][FrameNext]_vars


(***************************************************************************)
(* Vocabulary of the properties.                                           *)
(***************************************************************************)
\* the control points have been seeded
Initialized == perspectiveCoords # <<>>

\* a step that performs one drag update (one run of a handle's handler)
DragStep == moves' = moves + 1

\* a step that completes one image load
LoadStep == pendingLoads' = pendingLoads - 1 /\ loaded'

\* the minimum x and minimum y of a point list
MinCoord(coords) ==
  <<ArrayMin(Axis(coords, 1)), ArrayMin(Axis(coords, 2))>>

\* maximum minus minimum of a point list along one axis
Extent(coords, axis) ==
  RSub(ArrayMax(Axis(coords, axis)), ArrayMin(Axis(coords, axis)))

\* twice the signed area of the polygon through the points in their order
\* (shoelace formula)
RECURSIVE Shoelace(_, _)
Shoelace(coords, i) ==
  IF i > Len(coords) THEN Zero
  ELSE LET j == (i % Len(coords)) + 1
       IN  RAdd(RSub(RMul(coords[i][1], coords[j][2]),
                     RMul(coords[j][1], coords[i][2])),
                Shoelace(coords, i + 1))

NonZeroArea(coords) == Shoelace(coords, 1) # Zero

\* the rectangle corners of a w x h image: top-left, top-right,
\* bottom-right, bottom-left
Corners(w, h) == << <<Zero, Zero>>, <<w, Zero>>, <<w, h>>, <<Zero, h>> >>

(***************************************************************************)
(* C1.  Offset invariance: after a drag update has computed the bounds of  *)
(* a control-point set of non-zero area and normalized the offset, the     *)
(* minimum x and y of the points are exactly 0 and their bounding width    *)
(* and height (at the device pixel ratio) are the width and height of the  *)
(* bounds computed before the normalization.                               *)
(***************************************************************************)
OffsetInvariance ==
  [][(DragStep /\ NonZeroArea(perspectiveCoords'))
       => CalcDimensions(perspectiveCoords', dpr)
            = [left |-> Zero, top |-> Zero,
               width |-> width', height |-> height']]_vars

(***************************************************************************)
(* C2.  Idempotence of the end-of-drag normalization: running              *)
(* _resetSizeAndPosition again right after a drag update, with no point    *)
(* written in between, changes no control point and no part of the         *)
(* bounding frame (width, height, pathOffset).                             *)
(***************************************************************************)
EndDragIdempotent ==
  [][DragStep
       => ResetSizeAndPosition(perspectiveCoords', dpr, TRUE)
            = [coords |-> perspectiveCoords', width |-> width',
               height |-> height', pathOffset |-> pathOffset']]_vars

(***************************************************************************)
(* C3.  Scenario, image of natural size 200 x 100.  Point coordinates are  *)
(* in device-pixel units (the Photo's size times the device pixel ratio),  *)
(* frame values in the Photo's units (divided by the ratio).               *)
(* Initialization yields the corners (0,0), (200,0), (200,100), (0,100) in *)
(* that order; writing point 1 (the handle prs2) as (220,-10) on the fresh *)
(* image yields a frame with minimum y -10 / ratio and width at least      *)
(* 200 / ratio, and point 1 stored as (220,-10) minus the frame's new      *)
(* (minX, minY).                                                           *)
(***************************************************************************)
ScenarioImage == <<200, 100>>
ScenarioTarget == <<Num(220), Num(-10)>>

BoundingFrameConsistent ==
  [][DragStep
       => /\ RLeq(Zero, width') /\ RLeq(Zero, height')
          /\ width' = RDiv(Extent(perspectiveCoords', 1), Num(dpr))
          /\ height' = RDiv(Extent(perspectiveCoords', 2), Num(dpr))]_vars

\* two drag updates were performed and they changed the frame
FrameChangedByDrags ==
  /\ moves >= 2
  /\ width # Rat(image[1], dpr)
  /\ height # Rat(image[2], dpr)

(***************************************************************************)
(* C5.  Point order is stable: once seeded, the list keeps its length; it  *)
(* is seeded in the order top-left, top-right, bottom-right, bottom-left;  *)
(* a drag update moves every point other than the dragged one by one and   *)
(* the same offset, at its own index; no other step changes any point.     *)
(***************************************************************************)
PointOrderStable ==
  /\ [](Initialized => Len(perspectiveCoords) = NumPoints)
  /\ [][(~Initialized /\ Initialized')
          => /\ perspectiveCoords'
                  = Corners(perspectiveCoords'[3][1],
                            perspectiveCoords'[3][2])
             /\ RLess(Zero, perspectiveCoords'[3][1])
             /\ RLess(Zero, perspectiveCoords'[3][2])]_vars
  /\ [][Initialized
          => /\ Len(perspectiveCoords') = Len(perspectiveCoords)
             /\ IF DragStep
                THEN \A i \in 1..Len(perspectiveCoords) :
                       i # transform
                         => perspectiveCoords'[i]
                              = <<RSub(perspectiveCoords[i][1],
                                       pathOffset'[1]),
                                  RSub(perspectiveCoords[i][2],
                                       pathOffset'[2])>>
                ELSE perspectiveCoords' = perspectiveCoords]_vars

\* initialization, a second load, toggles and drags have all happened
AllOperationsDone ==
  /\ Initialized
  /\ listeners = 2 /\ pendingLoads = 0
  /\ Len(log) >= 2
  /\ moves >= 2
  /\ pathOffset # <<Zero, Zero>>

(***************************************************************************)
(* C6.  Initialization happens exactly once: there is never more than one  *)
(* Perspective filter, the control points exist exactly when a load has    *)
(* completed, the first load completion seeds them, and a later load       *)
(* completion changes neither the control points nor the filter list.      *)
(***************************************************************************)
InitializedOnce ==
  /\ [](/\ Len(filters) <= 1
        /\ Initialized <=> loaded
        /\ Initialized <=> Len(filters) = 1)
  /\ [][(LoadStep /\ ~loaded)
          => /\ perspectiveCoords' = Corners(Num(image[1]), Num(image[2]))
             /\ Len(filters') = 1]_vars
  /\ [][(LoadStep /\ loaded)
          => /\ perspectiveCoords' = perspectiveCoords
             /\ filters' = filters]_vars

\* added twice, both loads completed, the points dragged in between
LoadedTwice ==
  /\ listeners = 2 /\ pendingLoads = 0 /\ loaded
  /\ moves >= 1
  /\ Len(filters) = 1
  /\ perspectiveCoords # Corners(Num(image[1]), Num(image[2]))


(***************************************************************************)
(* C7.  A drag started with a control-point index outside 0..N-1 fails     *)
(* with InvalidControlPoint and changes nothing.  The program starts a     *)
(* drag only on one of the handles prs1..prsN that togglePerspective built *)
(* from the control points, so no reachable step has such an index; the    *)
(* statement has no case to be checked on.                                 *)
(***************************************************************************)

(***************************************************************************)
(* C8.  The controller follows Uninitialized -> Initialized -> Dragging(i) *)
(* -> Initialized: no perspective handle exists, no drag is in progress    *)
(* and no drag update has run before the points are seeded; once seeded    *)
(* the points never become undefined again; after a drag is released no    *)
(* drag is in progress and the points are normalized, their minimum x and  *)
(* y being 0.                                                              *)
(***************************************************************************)
ControllerStateMachine ==
  /\ []((controls.kind = "prs" \/ transform # 0 \/ moves > 0)
          => Initialized)
  /\ [][Initialized => Initialized']_vars
  /\ [][(transform # 0 /\ transform' = 0)
          => /\ Initialized'
             /\ MinCoord(perspectiveCoords') = <<Zero, Zero>>]_vars

\* the part of C8 that is about the order of the states alone
ControllerStateOrder ==
  /\ []((controls.kind = "prs" \/ transform # 0 \/ moves > 0)
          => Initialized)
  /\ [][Initialized => Initialized']_vars
  /\ [][(transform # 0 /\ transform' = 0) => Initialized']_vars

(***************************************************************************)
(* C9.  Serialization round trip: the Photo restored from its saved        *)
(* control points and warp-mode flag has the same coordinates in the same  *)
(* order, in the Photo and in its Perspective filter, and the same flag.   *)
(***************************************************************************)
RoundTrip ==
  restored # <<>>
    => /\ restored.perspectiveCoords = saved.perspectiveCoords
       /\ \A i \in 1..Len(restored.filters) :
            restored.filters[i].perspectiveCoords = saved.perspectiveCoords
       /\ restored.perspectiveMode = saved.perspectiveMode

(***************************************************************************)
(* C10.  Toggling warp mode leaves the geometry alone: a step that flips   *)
(* perspectiveMode changes neither the control points nor width, height,   *)
(* pathOffset or the filter list, so the surface generated from the points *)
(* is the same; and turning the mode on gives the handles of the same      *)
(* points again.  Hence off followed by on, with no drag in between,       *)
(* reproduces the mesh.                                                    *)
(***************************************************************************)
ToggleKeepsGeometry ==
  [][(perspectiveMode' # perspectiveMode)
       => /\ perspectiveCoords' = perspectiveCoords
          /\ width' = width /\ height' = height
          /\ pathOffset' = pathOffset
          /\ filters' = filters
          /\ GenerateSurface(perspectiveCoords')
               = GenerateSurface(perspectiveCoords)
          /\ (perspectiveMode' /\ Initialized)
               => controls' = PerspectiveControls(perspectiveCoords)]_vars

\* warp mode was turned on, a point dragged, the mode turned off and on
ToggledOffAndOn ==
  /\ Len(log) >= 3
  /\ log[Len(log) - 1] = TRUE /\ log[Len(log)] = FALSE
  /\ perspectiveMode /\ controls.kind = "prs"
  /\ moves >= 1
  /\ perspectiveCoords # Corners(Num(image[1]), Num(image[2]))

(***************************************************************************)
(* C11.  Degenerate geometry is rejected: a drag update that leaves the    *)
(* control points with zero enclosed area (collinear or coincident points) *)
(* issues no draw call with the mesh of those points and keeps the mesh    *)
(* that was drawn last, which has non-zero area.                           *)
(***************************************************************************)
DegenerateRejected ==
  [][(DragStep /\ ~NonZeroArea(perspectiveCoords'))
       => /\ rendered' = rendered
          /\ pipeline'.mesh = pipeline.mesh
          /\ NonZeroArea(pipeline'.mesh.corners)]_vars

\* a step in which the backend calls applyTo of the next filter of a run
PassStep == run.state = "running" /\ run' # run

(***************************************************************************)
(* C12.  The GPU backend is unavailable: a pass that is called without     *)
(* options.webgl, or whose shader cannot be retrieved, fails with          *)
(* RenderBackendUnavailable, and leaves the control points, the filter's   *)
(* bounds, the destination dimensions and the source and target textures   *)
(* as they were.                                                           *)
(***************************************************************************)
BackendUnavailable ==
  [][(PassStep /\ (~pipeline.webgl \/ pipeline'.error # "none"))
       => /\ pipeline'.error = "RenderBackendUnavailable"
          /\ perspectiveCoords' = perspectiveCoords
          /\ filters'[1].bounds = filters[1].bounds
          /\ pipeline'.destination = pipeline.destination
          /\ pipeline'.sourceTexture = pipeline.sourceTexture
          /\ pipeline'.targetTexture = pipeline.targetTexture]_vars

FrameStep == renderRequested /\ ~renderRequested'

LoadFailureSignalledOnce ==
  /\ [](Len(callbacks) <= 1)
  /\ [][(callbacks' # callbacks)
          => /\ Len(callbacks') = Len(callbacks) + 1
             /\ callbacks'[1] \in {<<"null", TRUE>>, <<"photo", FALSE>>}
             /\ callbacks'[1][2]
                  => /\ restored' = <<>>
                     /\ renderVars' = renderVars
                     /\ filters' = filters
             /\ ~callbacks'[1][2]
                  => /\ restored' # <<>>
                     /\ restored'.perspectiveCoords
                          \in {saved.perspectiveCoords,
                               ApplyPixelRatio(saved.perspectiveCoords,
                                               dpr)}]_vars
  /\ [][(pendingLoads' = pendingLoads - 1 /\ ~loaded')
          => /\ ~Initialized'
             /\ filters' = <<>>
             /\ rendered' = 0
             /\ renderRequested' = renderRequested]_vars

\* the image of a stored Photo failed to load: one call, (null, true)
LoadFailureSignalled ==
  /\ saved # <<>>
  /\ callbacks = << <<"null", TRUE>> >>
  /\ restored = <<>>

\* where handle i is drawn on the canvas (the positionHandler of the
\* control): the Photo's centre, which main.js places at the canvas centre
\* and photo.js never moves, minus half the Photo's size, plus the point
\* divided by the device pixel ratio (scale and zoom 1, no rotation)
HandlePosition(coords, w, h, ratio, i) ==
  <<RAdd(RSub(Rat(CanvasSize[1], 2), RDiv(RMul(w, Num(ObjectScale[1])), Num(2))),
         RDiv(RMul(coords[i][1], Num(ObjectScale[1])), Num(ratio))),
    RAdd(RSub(Rat(CanvasSize[2], 2), RDiv(RMul(h, Num(ObjectScale[2])), Num(2))),
         RDiv(RMul(coords[i][2], Num(ObjectScale[2])), Num(ratio)))>>

(***************************************************************************)
(* C17.  Anchor compensation: a drag update repositions the image so that  *)
(* the undragged edges stay where they are: every control point other than *)
(* the dragged one has the same canvas position after the update as before *)
(* it.                                                                     *)
(***************************************************************************)
AnchorsStationary ==
  [][DragStep
       => \A i \in 1..Len(perspectiveCoords) :
            i # transform
              => HandlePosition(perspectiveCoords', width', height', dpr, i)
                   = HandlePosition(perspectiveCoords, width, height, dpr,
                                    i)]_vars


\* the vector from point j to point i of a control-point list
PointDifference(coords, i, j) ==
  <<RSub(coords[i][1], coords[j][1]), RSub(coords[i][2], coords[j][2])>>

(***************************************************************************)
(* C18.  One drag update of handle n writes the converted pointer position *)
(* into point n only, and then subtracts one offset, that of the bounds    *)
(* recomputed over the written points, from every point exactly once: the  *)
(* vector between any two points other than the dragged one is the same    *)
(* after the update as before it.                                          *)
(***************************************************************************)
SingleWriteUniformShift ==
  [][DragStep
       => /\ \E p \in Pointers :
               \E written \in {[perspectiveCoords EXCEPT
                                  ![transform] = PointerToCoord(p, width,
                                                                height,
                                                                dpr)]} :
                 /\ pathOffset'
                      = <<CalcDimensions(written, dpr).left,
                          CalcDimensions(written, dpr).top>>
                 /\ \A i \in 1..Len(written) :
                      /\ RAdd(perspectiveCoords'[i][1], pathOffset'[1])
                           = written[i][1]
                      /\ RAdd(perspectiveCoords'[i][2], pathOffset'[2])
                           = written[i][2]
          /\ \A i, j \in 1..Len(perspectiveCoords) \ {transform} :
               PointDifference(perspectiveCoords', i, j)
                 = PointDifference(perspectiveCoords, i, j)]_vars

\* two drag updates, of which the last moved the frame's corner, have left
\* the points other than the dragged one at their mutual distances of the
\* image's corners, away from those corners
UndraggedPointsShifted ==
  /\ moves >= 2
  /\ transform # 0
  /\ pathOffset # <<>>
  /\ pathOffset[1] # Zero /\ pathOffset[2] # Zero
  /\ \E i \in 1..Len(perspectiveCoords) \ {transform} :
       perspectiveCoords[i]
         # Corners(Num(image[1]), Num(image[2]))[i]
  /\ \A i, j \in 1..Len(perspectiveCoords) \ {transform} :
       PointDifference(perspectiveCoords, i, j)
         = PointDifference(Corners(Num(image[1]), Num(image[2])), i, j)


(***************************************************************************)
(* C19.  The Photo and its Perspective filter see the same control points: *)
(* once initialized, in every state, the points the filter holds are the   *)
(* Photo's perspectiveCoords point for point, the bounds and the mesh of   *)
(* the filter's last pass are those of these points, and a pass of the     *)
(* filter, whose hasRelativeCoordinates is false, leaves them unchanged.   *)
(***************************************************************************)
PhotoAndFilterAgree ==
  Initialized
    => \A i \in 1..Len(filters) :
         /\ ~filters[i].hasRelativeCoordinates
         /\ FilterCoords(filters[i], perspectiveCoords) = perspectiveCoords
         /\ filters[i].bounds = GetPerspectiveBounds(perspectiveCoords)
         /\ pipeline.mesh = GenerateSurface(perspectiveCoords)
         /\ ApplyTo(filters[i], perspectiveCoords,
                    NewPipeline(1, TRUE, TRUE), TRUE).coords
              = perspectiveCoords

\* drag updates have moved the points away from the seeded corners, and the
\* filter is there with the bounds of the moved points
FilterFollowedDrags ==
  /\ moves >= 2
  /\ Len(filters) = 1
  /\ pathOffset # <<>>
  /\ perspectiveCoords[1] # <<Zero, Zero>>
  /\ perspectiveCoords[3] # <<Num(image[1] * dpr), Num(image[2] * dpr)>>
  /\ filters[1].bounds.width # Num(image[1] * dpr)
  /\ filters[1].bounds = GetPerspectiveBounds(perspectiveCoords)


(***************************************************************************)
(* C20.  The warp-mode flag and the installed controls always agree: in    *)
(* every state perspectiveMode is true exactly when the controls are the   *)
(* perspective handles prs1..prsN, one per control point, and false        *)
(* exactly when they are the default image controls.                       *)
(***************************************************************************)
FlagMatchesControls ==
  /\ perspectiveMode
       <=> /\ controls.kind = "prs"
           /\ controls.handles = 1..Len(perspectiveCoords)
  /\ ~perspectiveMode <=> controls = ImageControls

====
